---------------------------- MODULE Spec2Model ----------------------------
(***************************************************************************)
(* A model of go-did-web: the did:web identifier codec (pkg/didweb), the   *)
(* payment-gated registration flow (pkg/server handleRegister/handlePaid   *)
(* over pkg/storage/didstorage) and the payment notification broker        *)
(* (pkg/server PaymentBroker).                                             *)
(*                                                                         *)
(* Go strings are TLA+ strings; a character is a string of length 1.       *)
(***************************************************************************)
EXTENDS Integers, Sequences, FiniteSets, TLC

(***************************************************************************)
(* Go's strings package                                                    *)
(***************************************************************************)

\* s[i] (1-based) as a one-character string
Ch(s, i) == SubSeq(s, i, i)

\* s[i:] in Go's 0-based slicing is SubSeq(s, i+1, Len(s))
From(s, i) == SubSeq(s, i, Len(s))

RECURSIVE IndexFrom(_, _, _)
\* strings.Index restricted to a one-character separator: the first position
\* >= i holding c, 0 when there is none
IndexFrom(s, c, i) ==
    IF i > Len(s) THEN 0
    ELSE IF Ch(s, i) = c THEN i
    ELSE IndexFrom(s, c, i + 1)

Index(s, c) == IndexFrom(s, c, 1)

Contains(s, c) == Index(s, c) # 0

RECURSIVE Split(_, _)
\* strings.Split(s, sep) for a one-character sep: n separators give n+1 pieces
Split(s, sep) ==
    LET i == Index(s, sep)
    IN  IF i = 0 THEN <<s>>
        ELSE <<SubSeq(s, 1, i - 1)>> \o Split(From(s, i + 1), sep)

RECURSIVE Join(_, _)
\* strings.Join(parts, sep)
Join(parts, sep) ==
    IF Len(parts) = 0 THEN ""
    ELSE IF Len(parts) = 1 THEN parts[1]
    ELSE parts[1] \o sep \o Join(Tail(parts), sep)

RECURSIVE TrimLeft(_, _)
TrimLeft(s, c) ==
    IF Len(s) > 0 /\ Ch(s, 1) = c THEN TrimLeft(From(s, 2), c) ELSE s

RECURSIVE TrimRight(_, _)
TrimRight(s, c) ==
    IF Len(s) > 0 /\ Ch(s, Len(s)) = c THEN TrimRight(SubSeq(s, 1, Len(s) - 1), c)
    ELSE s

\* strings.Trim(s, cutset) for a one-character cutset
Trim(s, c) == TrimRight(TrimLeft(s, c), c)

\* strings.Cut(s, sep): before, after
Cut(s, c) ==
    LET i == Index(s, c)
    IN  IF i = 0 THEN [before |-> s, after |-> "", found |-> FALSE]
        ELSE [before |-> SubSeq(s, 1, i - 1), after |-> From(s, i + 1), found |-> TRUE]

(***************************************************************************)
(* Bytes: the printable ASCII range, by code                               *)
(***************************************************************************)
\* The printable characters by byte value, in runs: 32..33, 35..91, 93..95 and
\* 97..126. The double quote (34), the backslash (92) and the backquote (96)
\* are left out.
AsciiLow == "#$%&'()*+,-./0123456789:;<=>?@ABCDEFGHIJKLMNOPQRSTUVWXYZ["

AsciiMid == "]^_"

AsciiHigh == "abcdefghijklmnopqrstuvwxyz{|}~"

\* the characters of a string, as a set
CharsOf(s) == {Ch(s, i) : i \in 1..Len(s)}

\* the byte value of every character of the table
OrdTable ==
    [c \in {" ", "!"} \cup CharsOf(AsciiLow) \cup CharsOf(AsciiMid) \cup CharsOf(AsciiHigh) |->
        IF c = " " THEN 32
        ELSE IF c = "!" THEN 33
        ELSE IF Contains(AsciiLow, c) THEN 34 + Index(AsciiLow, c)
        ELSE IF Contains(AsciiMid, c) THEN 92 + Index(AsciiMid, c)
        ELSE 96 + Index(AsciiHigh, c)]

\* the byte value of a character of the table
Ord(c) == OrdTable[c]

\* the byte values the table holds
Printable(n) == n >= 32 /\ n <= 126 /\ n # 34 /\ n # 92 /\ n # 96

\* the character of a byte value of the table
Chr(n) ==
    IF n = 32 THEN " "
    ELSE IF n = 33 THEN "!"
    ELSE IF n < 92 THEN Ch(AsciiLow, n - 34)
    ELSE IF n < 96 THEN Ch(AsciiMid, n - 92)
    ELSE Ch(AsciiHigh, n - 96)

UpperHex == "0123456789ABCDEF"

LowerHex == "0123456789abcdef"

\* the value of every hexadecimal digit, of either case
HexTable ==
    [c \in CharsOf(UpperHex) \cup CharsOf(LowerHex) |->
        IF Contains(UpperHex, c) THEN Index(UpperHex, c) - 1 ELSE Index(LowerHex, c) - 1]

\* net/url ishex
ishex(c) == c \in DOMAIN HexTable

\* net/url unhex
unhex(c) == HexTable[c]

Digits == "0123456789"

IsDigit(c) == c \in CharsOf(Digits)

IsAlnum(c) == Len(c) = 1 /\ LET n == Ord(c) IN
    \/ (n >= 48 /\ n <= 57)
    \/ (n >= 65 /\ n <= 90)
    \/ (n >= 97 /\ n <= 122)

UpperAlpha == "ABCDEFGHIJKLMNOPQRSTUVWXYZ"

LowerAlpha == "abcdefghijklmnopqrstuvwxyz"

\* unicode.ToLower on the ASCII capitals
LowerOf == [c \in CharsOf(UpperAlpha) |->
               Ch(LowerAlpha, Index(UpperAlpha, c))]

\* unicode.ToLower on an ASCII character
lower(c) == IF c \in DOMAIN LowerOf THEN LowerOf[c] ELSE c

RECURSIVE ToLower(_)
\* strings.ToLower on ASCII
ToLower(s) ==
    IF Len(s) = 0 THEN "" ELSE lower(Ch(s, 1)) \o ToLower(From(s, 2))

RECURSIVE EqualFold(_, _)
\* strings.EqualFold on ASCII: character by character, up to the first
\* difference
EqualFold(a, b) ==
    IF Len(a) = 0 \/ Len(b) = 0 THEN Len(a) = Len(b)
    ELSE /\ lower(Ch(a, 1)) = lower(Ch(b, 1))
         /\ EqualFold(From(a, 2), From(b, 2))

(***************************************************************************)
(* strconv.Atoi and fmt's %d                                               *)
(***************************************************************************)
RECURSIVE DigitsValue(_, _)
\* the value of a string of decimal digits, read left to right onto acc
DigitsValue(s, acc) ==
    IF Len(s) = 0 THEN acc
    ELSE DigitsValue(From(s, 2), 10 * acc + (Index(Digits, Ch(s, 1)) - 1))

AllDigits(s) == \A i \in 1..Len(s) : IsDigit(Ch(s, i))

\* strconv.Atoi: an optional sign, then at least one digit and only digits
Atoi(s) ==
    LET signed == Len(s) > 0 /\ (Ch(s, 1) = "+" \/ Ch(s, 1) = "-")
        body   == IF signed THEN From(s, 2) ELSE s
    IN  IF Len(body) = 0 \/ ~AllDigits(body) THEN [err |-> TRUE, val |-> 0]
        ELSE [err |-> FALSE,
              val |-> IF signed /\ Ch(s, 1) = "-" THEN 0 - DigitsValue(body, 0)
                      ELSE DigitsValue(body, 0)]

(***************************************************************************)
(* net/url: escaping                                                       *)
(*   err is "" on success, "EscapeError" / "InvalidHost" / ... as net/url  *)
(*   reports them, and "Unmodelled" when the input leaves the printable    *)
(*   byte table or the URL shapes this model covers.                       *)
(***************************************************************************)
HostSafe == "!$&'()*+,;=:[]<>"

Unreserved == "-_.~"

\* the reserved characters shouldEscape decides by mode
Reserved == "$&+,/:;=?@"

\* the characters a fragment keeps besides the reserved ones
FragmentSafe == "!()*"

\* net/url shouldEscape(c, mode) for mode in {"host", "query", "path",
\* "fragment"}
shouldEscape(c, mode) ==
    IF IsAlnum(c) THEN FALSE
    ELSE IF mode = "host" /\ c \in CharsOf(HostSafe) THEN FALSE
    ELSE IF c \in CharsOf(Unreserved) THEN FALSE
    ELSE IF c \in CharsOf(Reserved) /\ mode = "path" THEN c = "?"
    ELSE IF c \in CharsOf(Reserved) /\ mode = "fragment" THEN FALSE
    ELSE IF mode = "fragment" /\ c \in CharsOf(FragmentSafe) THEN FALSE
    ELSE TRUE

RECURSIVE unescapeFrom(_, _, _)
\* net/url unescape(s, mode) from position i; mode is one of "query"
\* (encodeQueryComponent), "path", "fragment", "host"
unescapeFrom(s, i, mode) ==
    IF i > Len(s) THEN [err |-> "", val |-> ""]
    ELSE
      LET c == Ch(s, i) IN
      IF c = "%" THEN
        IF i + 2 > Len(s) \/ ~ishex(Ch(s, i + 1)) \/ ~ishex(Ch(s, i + 2))
          THEN [err |-> "EscapeError", val |-> ""]
        ELSE IF mode = "host" /\ unhex(Ch(s, i + 1)) < 8 /\ SubSeq(s, i, i + 2) # "%25"
          THEN [err |-> "EscapeError", val |-> ""]
        ELSE
          LET n    == 16 * unhex(Ch(s, i + 1)) + unhex(Ch(s, i + 2))
              rest == unescapeFrom(s, i + 3, mode)
          IN  IF rest.err # "" THEN rest
              ELSE IF ~Printable(n) THEN [err |-> "Unmodelled", val |-> ""]
              ELSE [err |-> "", val |-> Chr(n) \o rest.val]
      ELSE IF mode = "host" /\ shouldEscape(c, "host")
        THEN [err |-> "InvalidHost", val |-> ""]
      ELSE
        LET rest == unescapeFrom(s, i + 1, mode)
        IN  IF rest.err # "" THEN rest
            ELSE [err |-> "",
                  val |-> (IF c = "+" /\ mode = "query" THEN " " ELSE c) \o rest.val]

unescape(s, mode) == unescapeFrom(s, 1, mode)

\* url.QueryUnescape: %XX to the byte, "+" to a space
QueryUnescape(s) == unescape(s, "query")

RECURSIVE escape(_, _)
\* net/url escape(s, mode): every byte shouldEscape names becomes %XX in
\* upper-case hex, but a space in query mode, which becomes "+"
escape(s, mode) ==
    IF Len(s) = 0 THEN ""
    ELSE (IF Ch(s, 1) = " " /\ mode = "query" THEN "+"
          ELSE IF shouldEscape(Ch(s, 1), mode)
            THEN "%" \o Ch(UpperHex, (Ord(Ch(s, 1)) \div 16) + 1)
                     \o Ch(UpperHex, (Ord(Ch(s, 1)) % 16) + 1)
          ELSE Ch(s, 1))
         \o escape(From(s, 2), mode)

\* the characters validEncoded accepts whatever the mode
EncodedSafe == "!$&'()*+,;=:@[]%"

\* net/url validEncoded(s, mode)
validEncoded(s, mode) ==
    \A i \in 1..Len(s) :
        Ch(s, i) \in CharsOf(EncodedSafe) \/ ~shouldEscape(Ch(s, i), mode)

\* an escaping that leaves every byte as it is
NoEscape(s) == s

RECURSIVE QueryEscape(_)
\* url.QueryEscape: a space to "+", every byte shouldEscape names to %XX in
\* upper-case hex
QueryEscape(s) ==
    IF Len(s) = 0 THEN ""
    ELSE
      LET c == Ch(s, 1)
          e == IF c = " " THEN "+"
               ELSE IF shouldEscape(c, "query")
                 THEN "%" \o Ch(UpperHex, (Ord(c) \div 16) + 1)
                          \o Ch(UpperHex, (Ord(c) % 16) + 1)
               ELSE c
      IN  e \o QueryEscape(From(s, 2))

(***************************************************************************)
(* net/url: url.Parse of an absolute "https://authority/path" URL          *)
(***************************************************************************)
RECURSIVE LastIndex(_, _)
\* strings.LastIndex for a one-character separator, 0 when absent
LastIndex(s, c) ==
    IF Len(s) = 0 THEN 0
    ELSE IF Ch(s, Len(s)) = c THEN Len(s)
    ELSE LastIndex(SubSeq(s, 1, Len(s) - 1), c)

Count(s, c) == Cardinality({i \in 1..Len(s) : Ch(s, i) = c})

HasPrefix(s, p) == Len(s) >= Len(p) /\ SubSeq(s, 1, Len(p)) = p

\* net/url validOptionalPort: "" or ":" followed by digits only
validOptionalPort(port) ==
    \/ port = ""
    \/ Ch(port, 1) = ":" /\ AllDigits(From(port, 2))

\* net/url parseHost, without the bracketed IPv6 form
parseHost(host) ==
    IF HasPrefix(host, "[") THEN [err |-> "Unmodelled", val |-> ""]
    ELSE IF LastIndex(host, ":") # 0
            /\ ~validOptionalPort(From(host, LastIndex(host, ":")))
      THEN [err |-> "InvalidPort", val |-> ""]
    ELSE unescape(host, "host")

\* net/url parseAuthority, without userinfo
parseAuthority(authority) ==
    IF Contains(authority, "@") THEN [err |-> "Unmodelled", val |-> ""]
    ELSE parseHost(authority)

UrlError(e) == [err |-> e, Host |-> "", Path |-> "", RawPath |-> "", ForceQuery |-> FALSE,
                RawQuery |-> "", Fragment |-> "", RawFragment |-> ""]

\* net/url setPath and setFragment: the raw text is kept only when it is
\* not the default encoding of the decoded text
RawOf(raw, decoded, mode) == IF raw = escape(decoded, mode) THEN "" ELSE raw

\* the URL url.Parse returns once authority, path and fragment are decoded
UrlOf(host, path, rawPath, cutQ, frag, rawFrag) ==
    IF host.err # "" THEN UrlError(host.err)
    ELSE IF path.err # "" THEN UrlError(path.err)
    ELSE IF frag.err # "" THEN UrlError(frag.err)
    ELSE [err |-> "", Host |-> host.val,
          Path |-> path.val, RawPath |-> RawOf(rawPath, path.val, "path"),
          ForceQuery |-> cutQ.force, RawQuery |-> cutQ.after,
          Fragment |-> frag.val, RawFragment |-> RawOf(rawFrag, frag.val, "fragment")]

\* url.Parse from the authority on: it runs to the next "/", and the rest
\* is the path
urlParseAuthority(auth0, slash, cutQ, rawFrag) ==
    UrlOf(parseAuthority(IF slash = 0 THEN auth0 ELSE SubSeq(auth0, 1, slash - 1)),
          unescape(IF slash = 0 THEN "" ELSE From(auth0, slash), "path"),
          IF slash = 0 THEN "" ELSE From(auth0, slash),
          cutQ,
          unescape(rawFrag, "fragment"),
          rawFrag)

\* url.Parse from the query on: a lone trailing "?" forces an empty query,
\* otherwise the query is cut at the first "?"
urlParseQuery(cutQ, rawFrag) ==
    urlParseAuthority(From(cutQ.before, 3), Index(From(cutQ.before, 3), "/"), cutQ, rawFrag)

\* url.Parse after the scheme "https:"
urlParseRest(rest0, rawFrag) ==
    urlParseQuery(IF Len(rest0) > 0 /\ Ch(rest0, Len(rest0)) = "?" /\ Count(rest0, "?") = 1
                    THEN [before |-> SubSeq(rest0, 1, Len(rest0) - 1), after |-> "",
                          force |-> TRUE]
                    ELSE [before |-> Cut(rest0, "?").before, after |-> Cut(rest0, "?").after,
                          force |-> FALSE],
                  rawFrag)

\* url.Parse from the cut at the first "#" on
urlParseCut(cutF) ==
    IF ~HasPrefix(cutF.before, "https://") THEN UrlError("Unmodelled")
    ELSE urlParseRest(From(cutF.before, Len("https:") + 1), cutF.after)

\* url.Parse(rawURL) for rawURL = "https://" + ...: the fragment is cut at the
\* first "#", the query at the first "?", the authority runs to the next "/",
\* and the rest is the path, percent-decoded
urlParse(rawURL) == urlParseCut(Cut(rawURL, "#"))

\* URL.EscapedPath: the raw path when it is a valid encoding of the path,
\* the default encoding otherwise
EscapedPath(url) ==
    IF url.RawPath # "" /\ validEncoded(url.RawPath, "path")
         /\ unescape(url.RawPath, "path") = [err |-> "", val |-> url.Path]
      THEN url.RawPath
    ELSE IF url.Path = "*" THEN "*"
    ELSE escape(url.Path, "path")

\* URL.EscapedFragment
EscapedFragment(url) ==
    IF url.RawFragment # "" /\ validEncoded(url.RawFragment, "fragment")
         /\ unescape(url.RawFragment, "fragment") = [err |-> "", val |-> url.Fragment]
      THEN url.RawFragment
    ELSE escape(url.Fragment, "fragment")

\* the path as URL.String writes it: a "/" is put before a path that lacks
\* one when there is a host
StringPath(host, path) ==
    IF path # "" /\ Ch(path, 1) # "/" /\ host # "" THEN "/" \o path ELSE path

\* URL.String of an https URL without userinfo
urlString(url) ==
    "https:"
      \o (IF url.Host # "" \/ url.Path # "" THEN "//" ELSE "")
      \o escape(url.Host, "host")
      \o StringPath(url.Host, EscapedPath(url))
      \o (IF url.ForceQuery \/ url.RawQuery # "" THEN "?" \o url.RawQuery ELSE "")
      \o (IF url.Fragment # "" THEN "#" \o EscapedFragment(url) ELSE "")

(***************************************************************************)
(* pkg/didweb: the identifier codec                                        *)
(*   A descriptor is [host, parts, RawQuery, Anchor]; parts is the slice   *)
(*   DIDWebURL.parts, which ID() writes through.                           *)
(***************************************************************************)
\* DIDWebURL.Host
Host(u) ==
    LET decodedHost == QueryUnescape(u.host) IN
    IF decodedHost.err # "" THEN u.host
    ELSE IF Contains(decodedHost.val, ":") THEN
      LET split == Split(decodedHost.val, ":")
          port  == Atoi(split[2])
      IN  IF port.err THEN u.host
          ELSE IF port.val > 0 THEN split[1] \o ":" \o ToString(port.val)
          ELSE split[1]
    ELSE u.host

NoURL == [host |-> "", parts |-> <<>>, RawQuery |-> "", Anchor |-> ""]

ParseError(e) == [err |-> e, url |-> NoURL]

\* didweb.Parse from url.Parse on: the descriptor keeps the host as written
\* and takes parts, query and fragment from the parsed URL; path holds one
\* entry per kept segment
ParseURL(host, path, didURL) ==
    IF didURL.err # "" THEN ParseError("MalformedIdentifier")
    ELSE [err |-> "",
          url |-> [host     |-> host,
                   parts    |-> IF Len(path) > 0
                                  THEN Split(Trim(didURL.Path, "/"), "/")
                                  ELSE <<>>,
                   RawQuery |-> didURL.RawQuery,
                   Anchor   |-> didURL.Fragment]]

\* didweb.Parse from the unescaped segments on: an escape error ends it,
\* otherwise url.Parse("https://" + d.Host() + "/" + strings.Join(path, "/"))
ParseUnescaped(host, unescaped) ==
    IF \E i \in 1..Len(unescaped) : unescaped[i].err # "" THEN ParseError("EncodingError")
    ELSE ParseURL(host, unescaped,
                  urlParse("https://" \o Host([NoURL EXCEPT !.host = host]) \o "/"
                              \o Join([i \in 1..Len(unescaped) |-> unescaped[i].val], "/")))

\* the loop of didweb.Parse over the segments it keeps: url.QueryUnescape
\* of each
ParseKept(host, kept) ==
    ParseUnescaped(host, [i \in 1..Len(kept) |-> QueryUnescape(kept[i])])

\* a Parse that does not look at the first two tokens
ParsePartsAnyPrefix(didParts) ==
    IF Len(didParts) < 3 THEN ParseError("MalformedIdentifier")
    ELSE ParseKept(didParts[3],
                   SelectSeq(SubSeq(didParts, 4, Len(didParts)), LAMBDA part : Len(part) > 0))

\* didweb.Parse from the split identifier on: the loop over didParts[3:]
\* skips the empty segments
ParseParts(didParts) ==
    IF Len(didParts) < 3 THEN ParseError("MalformedIdentifier")
    ELSE IF didParts[1] # "did" \/ didParts[2] # "web" THEN ParseError("MalformedIdentifier")
    ELSE ParseKept(didParts[3],
                   SelectSeq(SubSeq(didParts, 4, Len(didParts)), LAMBDA part : Len(part) > 0))

\* didweb.Parse
Parse(id) == ParseParts(Split(id, ":"))

\* DIDWebURL.URL from url.Parse on: "" when the URL does not parse
URLOf(rawURL) == IF rawURL.err # "" THEN "" ELSE urlString(rawURL)

\* DIDWebURL.URL: the location of the document, under .well-known when the
\* descriptor has no parts
URL(u) ==
    URLOf(urlParse("https://" \o Host(u) \o "/"
                     \o Join(IF Len(u.parts) = 0 THEN <<".well-known">> ELSE u.parts, "/")
                     \o "/did.json"))

\* a ParsePath that keeps a last part .well-known
KeepWellKnown(parts) == parts

\* ParsePath after the last part is dropped: a last part .well-known is
\* dropped too
StripWellKnown(parts) ==
    IF EqualFold(parts[Len(parts)], ".well-known") THEN SubSeq(parts, 1, Len(parts) - 1)
    ELSE parts

\* a ParsePath that does not look at the name of the last part
ParsePathPartsAnyName(parts) ==
    IF Len(parts) < 2 THEN ParseError("invalid")
    ELSE Parse("did:web:" \o Join(StripWellKnown(SubSeq(parts, 1, Len(parts) - 1)), ":"))

\* ParsePath from the split path on
ParsePathParts(parts) ==
    IF Len(parts) < 2 THEN ParseError("invalid")
    ELSE IF ~EqualFold(parts[Len(parts)], "did.json") THEN ParseError("invalid")
    ELSE Parse("did:web:" \o Join(StripWellKnown(SubSeq(parts, 1, Len(parts) - 1)), ":"))

\* didweb.ParsePath
ParsePath(path) == ParsePathParts(Split(path, "/"))

\* the path handleDefault hands to ParsePath for a request of rawURL:
\* url.QueryEscape(r.Host) + "/" + r.URL.Path
RequestPathOf(rawURL) == QueryEscape(rawURL.Host) \o "/" \o rawURL.Path

\* what DIDWebURL.ID leaves in u.parts: the loop assigns parts[i] =
\* url.QueryEscape(part) through the slice it shares with u
IDParts(u) == [i \in 1..Len(u.parts) |-> QueryEscape(u.parts[i])]

\* DIDWebURL.ID: the string returned
ID(u) ==
    IF Len(u.parts) = 0 THEN u.host
    ELSE u.host \o ":" \o Join(IDParts(u), ":")

\* DIDWebURL.DID
DID(u) == "did:web:" \o ID(u)

(***************************************************************************)
(* State                                                                   *)
(***************************************************************************)
VARIABLES
    \* the codec under test: Parse's argument, ParsePath's argument, the
    \* descriptor returned, the error, and the last accessor called with what
    \* it returned
    id, path, u, perr, op, out, ncalls,
    \* Server.store (the DIDStore's bucket) and RegisterStore.store
    store, regStore,
    \* the handleRegister and handlePaid invocations, and the nonces drawn
    reg, paid, nonces,
    \* the GET /resolve/{id} request (or the didweb.Resolve call): what was
    \* asked, what was fetched, and what was answered
    lookup,
    \* PaymentBroker.clients, the WaitForPayment connections, the
    \* BroadcastPayment goroutines, and whether the runtime has aborted
    clients, conn, pub, crashed

codecVars == <<id, path, u, perr, op, out, ncalls>>

serverVars == <<store, regStore, reg, paid, nonces, lookup>>

brokerVars == <<clients, conn, pub, crashed>>

vars == <<id, path, u, perr, op, out, ncalls, store, regStore, reg, paid, nonces, lookup,
          clients, conn, pub, crashed>>

(***************************************************************************)
(* Bounds and inputs                                                       *)
(***************************************************************************)
\* concurrent or successive POST /register requests
MaxReg == 2

\* concurrent or successive POST /paid/{id} webhook calls
MaxPaid == 2

RegProcs == 1..MaxReg

PaidProcs == 1..MaxPaid

\* Server.domain
domain == "h"

\* key inputs of a register request: a verification method id and its purposes
KeyInputs ==
    { <<[ID |-> "k1", Purposes |-> <<"assertionMethod">>]>>,
      <<[ID |-> "k2", Purposes |-> <<"authentication", "ASSERTIONMETHOD">>]>>,
      <<[ID |-> "k3", Purposes |-> <<"authentication", "other">>]>> }

ServiceInputs == { << >> }

\* RegisterRequest.ID: under the domain, under the domain with an empty
\* segment, under another domain, without a name
RegisterIds == {"h:a", "h::a", "x:a", "h"}

RegisterRequests == [ID : RegisterIds, Keys : KeyInputs, Services : ServiceInputs]

(***************************************************************************)
(* encoding/json and the documents                                         *)
(***************************************************************************)
NoDoc == [ID |-> "", VerificationMethod |-> << >>, Authentication |-> << >>,
          AssertionMethod |-> << >>, CapabilityDelegation |-> << >>,
          CapabilityInvocation |-> << >>, KeyAgreement |-> << >>,
          Services |-> << >>]

\* a stored value: a JSON document, some other text, or nothing (a missing key)
NoBytes == [kind |-> "empty", doc |-> NoDoc, text |-> ""]

\* json.Marshal(doc)
Marshal(doc) == [kind |-> "json", doc |-> doc, text |-> ""]

\* []byte(s) for a string that is no JSON document (a payment request)
Text(s) == [kind |-> "text", doc |-> NoDoc, text |-> s]

\* json.Unmarshal(bytes, &doc): fails on empty input and on text that is no
\* JSON object
Unmarshal(bytes) ==
    IF bytes.kind = "json" THEN [err |-> FALSE, doc |-> bytes.doc]
    ELSE [err |-> TRUE, doc |-> NoDoc]

\* Storage.Get: the value, empty for a missing key
Get(s, key) == IF key \in DOMAIN s THEN s[key] ELSE NoBytes

\* Storage.Set
Set(s, key, value) == [k \in DOMAIN s \cup {key} |-> IF k = key THEN value ELSE s[k]]

\* Storage.Delete
Delete(s, key) == [k \in DOMAIN s \ {key} |-> s[k]]

EmptyStorage == [k \in {} |-> NoBytes]

(***************************************************************************)
(* pkg/storage/didstorage: building and storing documents                  *)
(***************************************************************************)
\* didweb.New(id), as DIDFromProps calls it: a document named did:web:<id>
\* that carries no relationship yet
New(name) == [NoDoc EXCEPT !.ID = "did:web:" \o name]

\* the references "#" + key.VerificationMethod.ID of the keys that name the
\* purpose, in the order the two loops of DIDFromProps add them
RECURSIVE PurposeRefs(_, _)
PurposeRefs(keys, purpose) ==
    IF Len(keys) = 0 THEN << >>
    ELSE
      LET key == Head(keys)
          n   == Cardinality({i \in 1..Len(key.Purposes) : EqualFold(key.Purposes[i], purpose)})
      IN  [i \in 1..n |-> "#" \o key.ID] \o PurposeRefs(Tail(keys), purpose)

\* the document DIDFromProps builds, before its assertion-method check
BuiltDoc(name, keys, services) ==
    [New(name) EXCEPT
        !.VerificationMethod   = [i \in 1..Len(keys) |-> keys[i].ID],
        !.Authentication       = PurposeRefs(keys, "authentication"),
        !.AssertionMethod      = PurposeRefs(keys, "assertionMethod"),
        !.CapabilityDelegation = PurposeRefs(keys, "capabilityDelegation"),
        !.CapabilityInvocation = PurposeRefs(keys, "capabilityInvocation"),
        !.KeyAgreement         = PurposeRefs(keys, "keyAgreement"),
        !.Services             = services]

\* a DIDFromProps that returns the document it built without looking at its
\* assertion methods
DIDFromPropsUnchecked(name, keys, services) ==
    [err |-> FALSE, doc |-> BuiltDoc(name, keys, services)]

\* didstorage.DIDFromProps: fails unless the document has an assertion method
DIDFromProps(name, keys, services) ==
    LET doc == BuiltDoc(name, keys, services)
    IN  IF Len(doc.AssertionMethod) = 0 THEN [err |-> TRUE, doc |-> NoDoc]
        ELSE [err |-> FALSE, doc |-> doc]

\* DIDStore.Resolve(id): the stored document, an error when the key is
\* missing or its value does not parse
Resolve(s, key) ==
    LET bytes == Get(s, key)
    IN  IF bytes.kind = "empty" THEN [err |-> TRUE, doc |-> NoDoc]
        ELSE Unmarshal(bytes)

\* the key DIDStore.Register stores under, given what Parse returned
KeyOf(didwebUrl) == [err |-> didwebUrl.err # "", key |-> ID(didwebUrl.url)]

\* DIDStore.Register(doc): the key is didweb.Parse(doc.ID).ID()
StoreKey(doc) == KeyOf(Parse(doc.ID))

\* the hex form of the i-th nonce RegisterStore.Register draws
NonceString(i) == "nonce" \o ToString(i)

\* the payment request the gateway answers the i-th invoice request with
PaymentRequest(i) == "lnbc" \o ToString(i)

\* the {id} a webhook call may carry: a nonce, or some other key of the
\* registration store
PaidIds == {NonceString(i) : i \in 1..MaxReg} \cup {"did:web:h:a"}

(***************************************************************************)
(* pkg/server: POST /register (handleRegister)                             *)
(*   pc: idle -> get -> (validate ->) register -> setNonce -> setInvoice   *)
(*       -> done; an error answers and goes to done                        *)
(***************************************************************************)
NoRequest == [ID |-> "", Keys |-> << >>, Services |-> << >>]

IdleReg == [pc |-> "idle", req |-> NoRequest, doc |-> NoDoc, payReq |-> "",
            nonce |-> "", invoice |-> "", validated |-> FALSE, code |-> 0, body |-> ""]

IdlePaid == [pc |-> "idle", id |-> "", doc |-> NoDoc, code |-> 0, broadcast |-> ""]

\* errorResponse / jsonSuccess
Respond(r, code, body) == [r EXCEPT !.pc = "done", !.code = code, !.body = body]

\* a handleRegister that does not compare the first part with the domain
RegStartAnyDomain(p, req) ==
    /\ reg[p].pc = "idle"
    /\ \A o \in RegProcs : o < p => reg[o].pc # "idle"
    /\ LET parts == Split(req.ID, ":")
           built == DIDFromProps(req.ID, req.Keys, req.Services)
           r     == [reg[p] EXCEPT !.req = req]
       IN  reg' = [reg EXCEPT ![p] =
              IF Len(parts) < 2 THEN Respond(r, 400, "id must be in the format")
              ELSE IF ~Resolve(store, req.ID).err THEN Respond(r, 400, "did exists")
              ELSE IF built.err THEN Respond(r, 500, "could not register")
              ELSE [r EXCEPT !.pc = "get", !.doc = built.doc]]
    /\ UNCHANGED <<store, regStore, paid, nonces>>

\* handleRegister up to DIDFromProps: the id must have two ":"-separated
\* parts, the first the domain; it must not resolve in the store; the
\* document must build
RegStart(p, req) ==
    /\ reg[p].pc = "idle"
    /\ \A o \in RegProcs : o < p => reg[o].pc # "idle"
    /\ LET parts == Split(req.ID, ":")
           built == DIDFromProps(req.ID, req.Keys, req.Services)
           r     == [reg[p] EXCEPT !.req = req]
       IN  reg' = [reg EXCEPT ![p] =
              IF Len(parts) < 2 THEN Respond(r, 400, "id must be in the format")
              ELSE IF parts[1] # domain THEN Respond(r, 400, "invalid domain")
              ELSE IF ~Resolve(store, req.ID).err THEN Respond(r, 400, "did exists")
              ELSE IF built.err THEN Respond(r, 500, "could not register")
              ELSE [r EXCEPT !.pc = "get", !.doc = built.doc]]
    /\ UNCHANGED <<store, regStore, paid, nonces>>

\* RegisterStore.Get: s.store.Get(doc.ID)
RegGet(p) ==
    /\ reg[p].pc = "get"
    /\ LET payReq == Get(regStore, reg[p].doc.ID)
       IN  reg' = [reg EXCEPT ![p] =
              IF payReq.kind = "empty" THEN [@ EXCEPT !.pc = "register"]
              ELSE [@ EXCEPT !.pc = "validate", !.payReq = payReq.text]]
    /\ UNCHANGED <<store, regStore, paid, nonces>>

\* a RegisterStore.Get that validates the stored payment request and then
\* reports it absent, so that handleRegister goes on to RegisterStore.Register
RegValidateThenRegister(p, valid) ==
    /\ reg[p].pc = "validate"
    /\ reg' = [reg EXCEPT ![p] = [@ EXCEPT !.pc = "register", !.validated = valid]]
    /\ UNCHANGED <<store, regStore, paid, nonces>>

\* RegisterStore.validatePaymentRequest: the gateway confirms the stored
\* payment request (200 and a body) or does not
RegValidate(p, valid) ==
    /\ reg[p].pc = "validate"
    /\ reg' = [reg EXCEPT ![p] =
          IF valid THEN Respond([@ EXCEPT !.validated = TRUE], 200, @.payReq)
          ELSE [@ EXCEPT !.pc = "register", !.payReq = ""]]
    /\ UNCHANGED <<store, regStore, paid, nonces>>

\* a RegisterStore.Register that writes the pending record before it has
\* the gateway's answer
RegInvoiceStoreFirst(p, created) ==
    /\ reg[p].pc = "register"
    /\ nonces' = nonces + 1
    /\ regStore' = Set(regStore, NonceString(nonces + 1), Marshal(reg[p].doc))
    /\ reg' = [reg EXCEPT ![p] =
          IF created
            THEN [@ EXCEPT !.pc = "setNonce", !.nonce = NonceString(nonces + 1),
                           !.invoice = PaymentRequest(nonces + 1)]
          ELSE Respond(@, 500, "could not get payment request")]
    /\ UNCHANGED <<store, paid>>

\* RegisterStore.Register up to the gateway's answer: a fresh nonce, and the
\* invoice request, which the gateway answers with 201 or not
RegInvoice(p, created) ==
    /\ reg[p].pc = "register"
    /\ nonces' = nonces + 1
    /\ reg' = [reg EXCEPT ![p] =
          IF created
            THEN [@ EXCEPT !.pc = "setNonce", !.nonce = NonceString(nonces + 1),
                           !.invoice = PaymentRequest(nonces + 1)]
          ELSE Respond(@, 500, "could not get payment request")]
    /\ UNCHANGED <<store, regStore, paid>>

\* s.store.Set(fmt.Sprintf("%x", nonce), docJSON)
RegSetNonce(p) ==
    /\ reg[p].pc = "setNonce"
    /\ regStore' = Set(regStore, reg[p].nonce, Marshal(reg[p].doc))
    /\ reg' = [reg EXCEPT ![p].pc = "setInvoice"]
    /\ UNCHANGED <<store, paid, nonces>>

\* a handleRegister that also writes the document to the primary store,
\* before any payment
RegSetInvoiceAndStore(p) ==
    /\ reg[p].pc = "setInvoice"
    /\ regStore' = Set(regStore, reg[p].doc.ID, Text(reg[p].invoice))
    /\ store' = Set(store, reg[p].req.ID, Marshal(reg[p].doc))
    /\ reg' = [reg EXCEPT ![p] = Respond(@, 200, @.invoice)]
    /\ UNCHANGED <<paid, nonces>>

\* s.store.Set(doc.ID, []byte(response.PaymentRequest)), and the answer
RegSetInvoice(p) ==
    /\ reg[p].pc = "setInvoice"
    /\ regStore' = Set(regStore, reg[p].doc.ID, Text(reg[p].invoice))
    /\ reg' = [reg EXCEPT ![p] = Respond(@, 200, @.invoice)]
    /\ UNCHANGED <<store, paid, nonces>>

(***************************************************************************)
(* pkg/server: POST /paid/{id} (handlePaid)                                *)
(*   pc: idle -> delete -> deleteInvoice -> body -> register -> done       *)
(***************************************************************************)
\* a RegisterStore.Paid that reports no error for a key without a pending
\* record: the handler goes on with an empty document
PaidGetUnchecked(q, key) ==
    /\ paid[q].pc = "idle"
    /\ \A o \in PaidProcs : o < q => paid[o].pc # "idle"
    /\ paid' = [paid EXCEPT ![q] =
          [@ EXCEPT !.id = key, !.pc = "delete",
                     !.doc = Unmarshal(Get(regStore, key)).doc]]
    /\ UNCHANGED <<store, regStore, reg, nonces>>

\* RegisterStore.Paid up to json.Unmarshal: a missing key or a value that is
\* no document is answered 401
PaidGet(q, key) ==
    /\ paid[q].pc = "idle"
    /\ \A o \in PaidProcs : o < q => paid[o].pc # "idle"
    /\ LET got == Unmarshal(Get(regStore, key))
           r   == [paid[q] EXCEPT !.id = key]
       IN  paid' = [paid EXCEPT ![q] =
              IF got.err THEN [r EXCEPT !.pc = "done", !.code = 401]
              ELSE [r EXCEPT !.pc = "delete", !.doc = got.doc]]
    /\ UNCHANGED <<store, regStore, reg, nonces>>

\* s.store.Delete(id)
PaidDelete(q) ==
    /\ paid[q].pc = "delete"
    /\ regStore' = Delete(regStore, paid[q].id)
    /\ paid' = [paid EXCEPT ![q].pc = "deleteInvoice"]
    /\ UNCHANGED <<store, reg, nonces>>

\* s.store.Delete(doc.ID); Paid returns the document
PaidDeleteInvoice(q) ==
    /\ paid[q].pc = "deleteInvoice"
    /\ regStore' = Delete(regStore, paid[q].doc.ID)
    /\ paid' = [paid EXCEPT ![q].pc = "body"]
    /\ UNCHANGED <<store, reg, nonces>>

\* io.ReadAll(r.Body) and json.Unmarshal(body, &info): the handler returns,
\* having written nothing, when the body is no PayInfo
PaidBody(q, parses) ==
    /\ paid[q].pc = "body"
    /\ paid' = [paid EXCEPT ![q] =
          IF parses THEN [@ EXCEPT !.pc = "register"]
          ELSE [@ EXCEPT !.pc = "done", !.code = 200]]
    /\ UNCHANGED <<store, regStore, reg, nonces>>

\* handlePaid from DIDStore.Register's key k on: a failed Register is
\* answered 500; otherwise the document is stored, the payment broadcast
\* and "ok" answered
PaidStore(q, k) ==
    IF k.err
      THEN /\ paid' = [paid EXCEPT ![q] = [@ EXCEPT !.pc = "done", !.code = 500]]
           /\ store' = store
      ELSE /\ store' = Set(store, k.key, Marshal(paid[q].doc))
           /\ paid' = [paid EXCEPT ![q] =
                 [@ EXCEPT !.pc = "done", !.code = 200,
                            !.broadcast = paid[q].doc.ID]]

\* s.store.Register(doc), go s.payBroker.BroadcastPayment(doc.ID), "ok"
PaidRegister(q) ==
    /\ paid[q].pc = "register"
    /\ PaidStore(q, StoreKey(paid[q].doc))
    /\ UNCHANGED <<regStore, reg, nonces>>

(***************************************************************************)
(* pkg/didweb: Resolve, and pkg/server: GET /resolve/{id} (handleResolve)  *)
(***************************************************************************)
\* what client.Get returned: a transport error, or a status and a body
NoResponse == [err |-> FALSE, StatusCode |-> 0, body |-> NoBytes]

TransportError == [NoResponse EXCEPT !.err = TRUE]

StatusCodes == {200, 404, 500}

\* the identifiers of fetched documents, besides the one asked for
FetchedIds == {"DID:WEB:H:A", "DID:WEB:X:A", "did:web:h:b"}

\* the bodies a host may answer with: a document, or text that is no JSON
Bodies(name) ==
    {Marshal([NoDoc EXCEPT !.ID = x]) : x \in {name} \cup FetchedIds} \cup {Text("<html>")}

\* the answers of the host to the request for the document of name
Responses(name) ==
    {TransportError} \cup [err : {FALSE}, StatusCode : StatusCodes, body : Bodies(name)]

IdleLookup == [pc |-> "idle", uri |-> "", id |-> "", url |-> "", resp |-> NoResponse,
               err |-> "", status |-> 0, doc |-> NoDoc, code |-> 0]

\* what didweb.Resolve returns, with the URL it fetched and the response it
\* got
Resolved(url, resp, err, status, doc) ==
    [url |-> url, resp |-> resp, err |-> err, status |-> status, doc |-> doc]

\* a Resolve that returns the decoded document whatever its ID
ResolveBodyAnyID(name, url, resp, decoded) ==
    IF decoded.err THEN Resolved(url, resp, "could not decode document body", 0, NoDoc)
    ELSE Resolved(url, resp, "", 0, decoded.doc)

\* didweb.Resolve from json.Unmarshal on: the document's ID must equal the
\* identifier in any case
ResolveBody(name, url, resp, decoded) ==
    IF decoded.err THEN Resolved(url, resp, "could not decode document body", 0, NoDoc)
    ELSE IF ~EqualFold(name, decoded.doc.ID)
      THEN Resolved(url, resp, "masmatched document id", 0, NoDoc)
    ELSE Resolved(url, resp, "", 0, decoded.doc)

\* didweb.Resolve from client.Get on; a Get of the empty URL fails
ResolveResponse(name, url, resp) ==
    IF url = "" \/ resp.err
      THEN Resolved(url, TransportError, "could not get did json", 0, NoDoc)
    ELSE IF resp.StatusCode = 404 THEN Resolved(url, resp, "DIDNotFound", 0, NoDoc)
    ELSE IF resp.StatusCode # 200
      THEN Resolved(url, resp, "invalid status cod", resp.StatusCode, NoDoc)
    ELSE ResolveBody(name, url, resp, Unmarshal(resp.body))

\* didweb.Resolve from Parse on
ResolveParsed(name, parsed, resp) ==
    IF parsed.err # "" THEN Resolved("", NoResponse, "could not parse did url", 0, NoDoc)
    ELSE ResolveResponse(name, URL(parsed.url), resp)

\* didweb.Resolve(id, client), resp being what client.Get returns
ResolveDID(name, resp) == ResolveParsed(name, Parse(name), resp)

\* the request URIs of GET /resolve/{id}: identifiers under the domain,
\* under the domain in another case, under another domain, and no identifier
LocalURIs == {"/resolve/did:web:h:a", "/resolve/did:web:h::a", "/resolve/did:web:h:b",
              "/resolve/did:web:H:a", "/resolve/example.com", "/resolve/"}

RemoteURIs == {"/resolve/did:web:x:a"}

\* what the other host answers a fetch of did:web:x:a with: no connection,
\* the document, a document of another name, no document
RemoteResponses ==
    {TransportError,
     [err |-> FALSE, StatusCode |-> 200, body |-> Marshal([NoDoc EXCEPT !.ID = "did:web:x:a"])],
     [err |-> FALSE, StatusCode |-> 200, body |-> Marshal([NoDoc EXCEPT !.ID = "did:web:h:b"])],
     [err |-> FALSE, StatusCode |-> 404, body |-> Text("<html>")]}

\* errorResponse / jsonSuccess of handleResolve
Answer(uri, name, code, doc, fetched) ==
    [pc |-> "done", uri |-> uri, id |-> name, url |-> fetched.url, resp |-> fetched.resp,
     err |-> fetched.err, status |-> fetched.status, doc |-> doc, code |-> code]

NotFetched == Resolved("", NoResponse, "", 0, NoDoc)

\* handleResolve after s.store.Resolve: the document is answered 200, an
\* error 404
AnswerStored(uri, name, r) ==
    IF r.err THEN Answer(uri, name, 404, NoDoc, NotFetched)
    ELSE Answer(uri, name, 200, r.doc, NotFetched)

\* handleResolve after didweb.Resolve: the document is answered 200, an
\* error 404
AnswerFetched(uri, name, fetched) ==
    IF fetched.err # "" THEN Answer(uri, name, 404, NoDoc, fetched)
    ELSE Answer(uri, name, 200, fetched.doc, fetched)

\* handleResolve from Parse on: an identifier whose host is the domain in
\* any case is looked up in the store under url.ID(), another one is
\* fetched with didweb.Resolve(url.DID())
ResolveLocalOrRemote(uri, name, parsed, resp) ==
    IF parsed.err # "" THEN Answer(uri, name, 400, NoDoc, NotFetched)
    ELSE IF EqualFold(parsed.url.host, domain)
      THEN AnswerStored(uri, name, Resolve(store, ID(parsed.url)))
    ELSE AnswerFetched(uri, name, ResolveDID(DID(parsed.url), resp))

\* handleResolve from the split request URI on
ResolveParts(uri, pathParts, resp) ==
    IF Len(pathParts) < 3 THEN Answer(uri, "", 400, NoDoc, NotFetched)
    ELSE IF Len(pathParts[3]) = 0 THEN Answer(uri, "", 400, NoDoc, NotFetched)
    ELSE ResolveLocalOrRemote(uri, pathParts[3], Parse(pathParts[3]), resp)

\* Server.handleResolve: one read of the store or one fetch, and the answer
handleResolve(uri, resp) ==
    /\ lookup.pc = "idle"
    /\ lookup' = ResolveParts(uri, Split(uri, "/"), resp)
    /\ UNCHANGED <<store, regStore, reg, paid, nonces>>

(***************************************************************************)
(* pkg/server: the payment broker                                          *)
(*   A connection s owns the channel WaitForPayment makes for it, so a     *)
(*   channel is named by its connection. conn[s].pc: idle -> select        *)
(*   (blocked in the for/select loop) <-> write (Fprintf and Flush of a    *)
(*   received message) -> returned. conn[s].cleanup is the goroutine that  *)
(*   waits for ctx.Done() and then deletes the channel.                    *)
(*   pub[b].pc: idle -> iter (in the range loop over the inner map, no     *)
(*   lock held) <-> send (blocked in c <- "paid") -> done.                 *)
(***************************************************************************)
\* GET /payment/{id} connections
MaxConn == 2

\* BroadcastPayment goroutines
MaxPub == 2

Conns == 1..MaxConn

Pubs == 1..MaxPub

\* the identifiers clients wait on and payments are broadcast for
BrokerIds == {"did:web:h:a", "did:web:h:b"}

IdleConn == [pc |-> "idle", id |-> "", ctxDone |-> FALSE, cleanup |-> "none", got |-> {}]

IdlePub == [pc |-> "idle", id |-> "", snap |-> {}, visited |-> {}, cur |-> 0]

\* the inner map of an identifier, empty when the identifier has none
ClientsOf(i) == IF i \in DOMAIN clients THEN clients[i] ELSE {}

\* a write of the inner map of i runs while a BroadcastPayment ranges over
\* that map without the lock: the runtime may abort the process ("concurrent
\* map iteration and map write") or the write may go through
RacesWithIteration(i) == \E b \in Pubs : pub[b].pc = "iter" /\ pub[b].id = i

\* the outcomes of a write of the inner map of i
WriteOutcomes(i) == IF RacesWithIteration(i) THEN {FALSE, TRUE} ELSE {FALSE}

\* WaitForPayment up to the loop: under the write lock the channel is made
\* and put in the identifier's inner map; the cleanup goroutine is started
WaitForPayment(s, i) ==
    /\ ~crashed
    /\ conn[s].pc = "idle"
    /\ \A o \in Conns : o < s => conn[o].pc # "idle"
    /\ \E abort \in (IF i \in DOMAIN clients THEN WriteOutcomes(i) ELSE {FALSE}) :
         /\ crashed' = abort
         /\ clients' = [k \in DOMAIN clients \cup {i} |->
                            IF k = i THEN ClientsOf(i) \cup {s} ELSE clients[k]]
    /\ conn' = [conn EXCEPT ![s] = [@ EXCEPT !.pc = "select", !.id = i, !.cleanup = "waiting"]]
    /\ UNCHANGED pub

\* the client goes away: the request's context is cancelled
Disconnect(s) ==
    /\ ~crashed
    /\ conn[s].pc \in {"select", "write"}
    /\ ~conn[s].ctxDone
    /\ conn' = [conn EXCEPT ![s].ctxDone = TRUE]
    /\ UNCHANGED <<clients, pub, crashed>>

\* a cleanup goroutine that empties the identifier's whole inner map
CleanupAll(s) ==
    /\ ~crashed
    /\ conn[s].cleanup = "waiting"
    /\ conn[s].ctxDone
    /\ \E abort \in WriteOutcomes(conn[s].id) :
         /\ crashed' = abort
         /\ clients' = [clients EXCEPT ![conn[s].id] = {}]
    /\ conn' = [conn EXCEPT ![s].cleanup = "done"]
    /\ UNCHANGED pub

\* a cleanup goroutine that ends without deleting the channel
CleanupWithoutDelete(s) ==
    /\ ~crashed
    /\ conn[s].cleanup = "waiting"
    /\ conn[s].ctxDone
    /\ conn' = [conn EXCEPT ![s].cleanup = "done"]
    /\ UNCHANGED <<clients, pub, crashed>>

\* the cleanup goroutine: after <-ctx.Done(), under the write lock,
\* delete(clients, messageChan)
Cleanup(s) ==
    /\ ~crashed
    /\ conn[s].cleanup = "waiting"
    /\ conn[s].ctxDone
    /\ \E abort \in WriteOutcomes(conn[s].id) :
         /\ crashed' = abort
         /\ clients' = [clients EXCEPT ![conn[s].id] = @ \ {s}]
    /\ conn' = [conn EXCEPT ![s].cleanup = "done"]
    /\ UNCHANGED pub

\* case <-ctx.Done(): return
Return(s) ==
    /\ ~crashed
    /\ conn[s].pc = "select"
    /\ conn[s].ctxDone
    /\ conn' = [conn EXCEPT ![s].pc = "returned"]
    /\ UNCHANGED <<clients, pub, crashed>>

\* fmt.Fprintf(w, ...) and flusher.Flush() are over: back to the select
Flush(s) ==
    /\ ~crashed
    /\ conn[s].pc = "write"
    /\ conn' = [conn EXCEPT ![s].pc = "select"]
    /\ UNCHANGED <<clients, pub, crashed>>

\* BroadcastPayment up to the loop: under the read lock, client, ok :=
\* b.clients[id]
BroadcastPayment(b, i) ==
    /\ ~crashed
    /\ pub[b].pc = "idle"
    /\ \A o \in Pubs : o < b => pub[o].pc # "idle"
    /\ pub' = [pub EXCEPT ![b] =
          IF i \in DOMAIN clients
            THEN [@ EXCEPT !.pc = "iter", !.id = i, !.snap = clients[i]]
          ELSE [@ EXCEPT !.pc = "done", !.id = i]]
    /\ UNCHANGED <<clients, conn, crashed>>

\* a BroadcastPayment that ranges over the channels of every identifier
BroadcastNextAnyId(b) ==
    /\ ~crashed
    /\ pub[b].pc = "iter"
    /\ LET live == UNION {clients[i] : i \in DOMAIN clients} \ pub[b].visited
       IN  \/ \E c \in live :
                pub' = [pub EXCEPT ![b] = [@ EXCEPT !.pc = "send", !.cur = c]]
           \/ /\ live \cap pub[b].snap = {}
              /\ pub' = [pub EXCEPT ![b] = [@ EXCEPT !.pc = "done", !.cur = 0]]
    /\ UNCHANGED <<clients, conn, crashed>>

\* one step of for c := range client: the next channel of the live map, or
\* the end of the loop. A channel deleted before it is reached is not
\* produced; one added during the loop may be produced or skipped
BroadcastNext(b) ==
    /\ ~crashed
    /\ pub[b].pc = "iter"
    /\ LET live == ClientsOf(pub[b].id) \ pub[b].visited
       IN  \/ \E c \in live :
                pub' = [pub EXCEPT ![b] = [@ EXCEPT !.pc = "send", !.cur = c]]
           \/ /\ live \cap pub[b].snap = {}
              /\ pub' = [pub EXCEPT ![b] = [@ EXCEPT !.pc = "done", !.cur = 0]]
    /\ UNCHANGED <<clients, conn, crashed>>

\* c <- "paid" meets case msg := <-messageChan: the channel is unbuffered,
\* so the send completes only when the connection's loop receives
Receive(b, s) ==
    /\ ~crashed
    /\ pub[b].pc = "send"
    /\ pub[b].cur = s
    /\ conn[s].pc = "select"
    /\ conn' = [conn EXCEPT ![s] = [@ EXCEPT !.pc = "write", !.got = @ \cup {b}]]
    /\ pub' = [pub EXCEPT ![b] = [@ EXCEPT !.pc = "iter", !.visited = @ \cup {s}, !.cur = 0]]
    /\ UNCHANGED <<clients, crashed>>

(***************************************************************************)
(* The codec as a state machine: Parse an identifier, then call the        *)
(* descriptor's accessors                                                  *)
(***************************************************************************)
\* path segments per identifier
MaxSegs == 2

\* calls of ID() or DID() on one descriptor
MaxCalls == 2

CodecHosts == {"h", "localhost%3A8443"}

\* path segments without a raw ":": plain, empty, and percent-escaped
Segments == {"", "a", "some%2Bsubpath", "a%20b", "a%2Fb", "a%3Fb", "a%23b",
             "a%3Ab", "a+b", "a%2bb", "%2B", "%3A", "a%2Bb%3Ac"}

\* raw host tokens: plain, with an escaped port, with a port that is zero,
\* zero-padded, signed, empty or no number, with two colons, and with a
\* broken escape
HostTokens == {"h", "localhost%3A8443", "h%3A80", "h%3A0", "h%3A0080", "h%3A-1",
               "h%3A", "h%3Aabc", "h%3A80%3A90", "h%zz"}

\* request paths host/seg1/.../segN[/.well-known]/did.json, by their pieces
PathCases ==
    [host : {"example.com", "localhost%3A8443"},
     segs : {<< >>, <<"john">>, <<"accounting", "john">>},
     wk   : {<< >>, <<".well-known">>, <<".WELL-KNOWN">>},
     file : {"did.json", "DID.JSON"}]

\* the request path of a case
PathOf(c) == Join(<<c.host>> \o c.segs \o c.wk \o <<c.file>>, "/")

\* paths without a host before the document name, of one segment, and with
\* another last segment than the document name
EdgePaths == {"/did.json", "/.well-known/did.json", "//did.json", "did.json",
              "h/a/did.txt", "h/did.json/a", "h/a", "h/a/did.jsonx", "h/a/"}

\* the paths ParsePath is called with, one of them without a document name
PathInputs == {PathOf(c) : c \in PathCases} \cup {"example.com"} \cup EdgePaths

RECURSIVE SeqsUpTo(_, _)
\* the sequences over S of length at most n
SeqsUpTo(S, n) ==
    IF n = 0 THEN {<< >>}
    ELSE LET shorter == SeqsUpTo(S, n - 1)
         IN  shorter \cup {Append(q, x) : q \in shorter, x \in S}

\* did:web:host[:seg1[:seg2...]]
Identifiers ==
    {"did:web:" \o Join(<<h>> \o segs, ":") : h \in CodecHosts, segs \in SeqsUpTo(Segments, MaxSegs)}

\* identifiers with an empty host token, with fewer than three tokens, with
\* other first tokens than did and web, and with a path token that is no
\* percent-encoding
EdgeIdentifiers == {"did:web:", "did:web::a", "did:web::", "did:web", "did", "example.com",
                    "did:xxx:h", "web:did:h", "DID:web:h", "did:WEB:h:a", ":web:h",
                    "did:web:h:a%zz", "did:web:h:a:%", "did:web:h:%2:a"}

CallParse ==
    /\ op = "new"
    /\ id # ""
    /\ LET parsed == Parse(id)
       IN  /\ perr' = parsed.err
           /\ u' = parsed.url
    /\ op' = "Parse"
    /\ UNCHANGED <<id, path, out, ncalls>>

\* u.ID(): returns the string and leaves the escaped segments in u.parts
CallID ==
    /\ op \notin {"new", "Host", "Resolve"}
    /\ perr = ""
    /\ ncalls < MaxCalls
    /\ out' = ID(u)
    /\ u' = [u EXCEPT !.parts = IDParts(u)]
    /\ op' = "ID"
    /\ ncalls' = ncalls + 1
    /\ UNCHANGED <<id, path, perr>>

\* u.DID(): "did:web:" + u.ID()
CallDID ==
    /\ op \notin {"new", "Host", "Resolve"}
    /\ perr = ""
    /\ ncalls < MaxCalls
    /\ out' = DID(u)
    /\ u' = [u EXCEPT !.parts = IDParts(u)]
    /\ op' = "DID"
    /\ ncalls' = ncalls + 1
    /\ UNCHANGED <<id, path, perr>>

\* the descriptor and the error a parse returned become the state
Parsed(parsed, name) ==
    /\ perr' = parsed.err
    /\ u' = parsed.url
    /\ op' = name

\* didweb.ParsePath(path) on an input path
CallParsePath ==
    /\ op = "new"
    /\ path # ""
    /\ Parsed(ParsePath(path), "ParsePath")
    /\ UNCHANGED <<id, path, out, ncalls>>

\* d.Host() on the descriptor Parse has just built from the host token
CallHost ==
    /\ op = "new"
    /\ id = "" /\ path = ""
    /\ out' = Host(u)
    /\ op' = "Host"
    /\ UNCHANGED <<id, path, u, perr, ncalls>>

\* u.URL(): reads the descriptor and writes nothing
CallURL ==
    /\ op \notin {"new", "Host", "Resolve"}
    /\ perr = ""
    /\ out' = URL(u)
    /\ op' = "URL"
    /\ UNCHANGED <<id, path, u, perr, ncalls>>

\* the call's result as the state keeps it
Called(fetched) == Answer("", id, 0, fetched.doc, fetched)

\* didweb.Resolve(id, client) on an input identifier
CallResolve(resp) ==
    /\ op = "new"
    /\ id # "" /\ path = ""
    /\ lookup' = Called(ResolveDID(id, resp))
    /\ op' = "Resolve"
    /\ UNCHANGED <<id, path, u, perr, out, ncalls, store, regStore, reg, paid, nonces>>

\* a request of the URL just returned reaches handleDefault, which calls
\* ParsePath on the path it builds from the request
CallParsePathOfURL ==
    /\ op = "URL"
    /\ out # ""
    /\ id # "" /\ path = ""
    /\ path' = RequestPathOf(urlParse(out))
    /\ Parsed(ParsePath(RequestPathOf(urlParse(out))), "ParsePath")
    /\ UNCHANGED <<id, out, ncalls>>

(***************************************************************************)
(* Specifications                                                          *)
(***************************************************************************)
CodecIdle ==
    /\ id = ""
    /\ path = ""
    /\ u = NoURL
    /\ perr = ""
    /\ op = "new"
    /\ out = ""
    /\ ncalls = 0

ServerIdle ==
    /\ store = EmptyStorage
    /\ regStore = EmptyStorage
    /\ reg = [p \in RegProcs |-> IdleReg]
    /\ paid = [q \in PaidProcs |-> IdlePaid]
    /\ nonces = 0
    /\ lookup = IdleLookup

BrokerIdle ==
    /\ clients = [i \in {} |-> {}]
    /\ conn = [s \in Conns |-> IdleConn]
    /\ pub = [b \in Pubs |-> IdlePub]
    /\ crashed = FALSE

\* the server after New(): empty stores, no request in flight
Init == CodecIdle /\ ServerIdle /\ BrokerIdle

Next ==
    \/ \E p \in RegProcs, req \in RegisterRequests : RegStart(p, req) /\ UNCHANGED lookup /\ UNCHANGED codecVars /\ UNCHANGED brokerVars
    \/ \E p \in RegProcs : RegGet(p) /\ UNCHANGED lookup /\ UNCHANGED codecVars /\ UNCHANGED brokerVars
    \/ \E p \in RegProcs, valid \in BOOLEAN : RegValidate(p, valid) /\ UNCHANGED lookup /\ UNCHANGED codecVars /\ UNCHANGED brokerVars
    \/ \E p \in RegProcs, created \in BOOLEAN : RegInvoice(p, created) /\ UNCHANGED lookup /\ UNCHANGED codecVars /\ UNCHANGED brokerVars
    \/ \E p \in RegProcs : RegSetNonce(p) /\ UNCHANGED lookup /\ UNCHANGED codecVars /\ UNCHANGED brokerVars
    \/ \E p \in RegProcs : RegSetInvoice(p) /\ UNCHANGED lookup /\ UNCHANGED codecVars /\ UNCHANGED brokerVars
    \/ \E q \in PaidProcs, key \in PaidIds : PaidGet(q, key) /\ UNCHANGED lookup /\ UNCHANGED codecVars /\ UNCHANGED brokerVars
    \/ \E q \in PaidProcs : PaidDelete(q) /\ UNCHANGED lookup /\ UNCHANGED codecVars /\ UNCHANGED brokerVars
    \/ \E q \in PaidProcs : PaidDeleteInvoice(q) /\ UNCHANGED lookup /\ UNCHANGED codecVars /\ UNCHANGED brokerVars
    \/ \E q \in PaidProcs, parses \in BOOLEAN : PaidBody(q, parses) /\ UNCHANGED lookup /\ UNCHANGED codecVars /\ UNCHANGED brokerVars
    \/ \E q \in PaidProcs : PaidRegister(q) /\ UNCHANGED lookup /\ UNCHANGED codecVars /\ UNCHANGED brokerVars

\* the registration flow: requests and webhook calls in any interleaving
Spec == Init /\ [][Next]_vars

BrokerNext ==
    \/ \E s \in Conns, i \in BrokerIds : WaitForPayment(s, i) /\ UNCHANGED codecVars /\ UNCHANGED serverVars
    \/ \E s \in Conns : Disconnect(s) /\ UNCHANGED codecVars /\ UNCHANGED serverVars
    \/ \E s \in Conns : Cleanup(s) /\ UNCHANGED codecVars /\ UNCHANGED serverVars
    \/ \E s \in Conns : Return(s) /\ UNCHANGED codecVars /\ UNCHANGED serverVars
    \/ \E s \in Conns : Flush(s) /\ UNCHANGED codecVars /\ UNCHANGED serverVars
    \/ \E b \in Pubs, i \in BrokerIds : BroadcastPayment(b, i) /\ UNCHANGED codecVars /\ UNCHANGED serverVars
    \/ \E b \in Pubs : BroadcastNext(b) /\ UNCHANGED codecVars /\ UNCHANGED serverVars
    \/ \E b \in Pubs, s \in Conns : Receive(b, s) /\ UNCHANGED codecVars /\ UNCHANGED serverVars

\* the broker: connections, disconnections and broadcasts in any interleaving
SpecBroker == Init /\ [][BrokerNext]_vars

\* the goroutines that can run do run: the scheduler is fair to every step
\* but the arrival of a request and the departure of a client, and a sender
\* waiting on a channel is served when its turn comes (the runtime queues
\* the waiting senders of a channel in order)
BrokerFairness ==
    /\ \A s \in Conns : WF_vars(Cleanup(s) /\ UNCHANGED codecVars /\ UNCHANGED serverVars)
    /\ \A s \in Conns : WF_vars(Return(s) /\ UNCHANGED codecVars /\ UNCHANGED serverVars)
    /\ \A s \in Conns : WF_vars(Flush(s) /\ UNCHANGED codecVars /\ UNCHANGED serverVars)
    /\ \A b \in Pubs : WF_vars(BroadcastNext(b) /\ UNCHANGED codecVars /\ UNCHANGED serverVars)
    /\ \A b \in Pubs, s \in Conns : SF_vars(Receive(b, s) /\ UNCHANGED codecVars /\ UNCHANGED serverVars)

SpecBrokerFair == Init /\ [][BrokerNext]_vars /\ BrokerFairness

CodecInit ==
    /\ \/ id \in Identifiers \cup EdgeIdentifiers /\ path = "" /\ u = NoURL
       \/ id = "" /\ path \in PathInputs /\ u = NoURL
       \/ id = "" /\ path = "" /\ u \in {[NoURL EXCEPT !.host = t] : t \in HostTokens}
    /\ perr = ""
    /\ op = "new"
    /\ out = ""
    /\ ncalls = 0
    /\ ServerIdle
    /\ BrokerIdle

CodecNext ==
    \/ CallParse /\ UNCHANGED serverVars /\ UNCHANGED brokerVars
    \/ CallID /\ UNCHANGED serverVars /\ UNCHANGED brokerVars
    \/ CallDID /\ UNCHANGED serverVars /\ UNCHANGED brokerVars
    \/ CallParsePath /\ UNCHANGED serverVars /\ UNCHANGED brokerVars
    \/ CallHost /\ UNCHANGED serverVars /\ UNCHANGED brokerVars
    \/ CallURL /\ UNCHANGED serverVars /\ UNCHANGED brokerVars
    \/ CallParsePathOfURL /\ UNCHANGED serverVars /\ UNCHANGED brokerVars
    \/ \E resp \in Responses(id) : CallResolve(resp) /\ UNCHANGED brokerVars

\* the codec on every identifier of the input set
SpecCodec == CodecInit /\ [][CodecNext]_vars

\* the register requests of the resolution runs: one name, plain and with
\* an empty segment; the gateway issues every invoice and every webhook
\* call carries a nonce and a body that parses
ResolveRequests == {req \in RegisterRequests : req.ID \in {"h:a", "h::a"} /\ req.Keys[1].ID = "k1"}

ResolveNext ==
    \/ \E p \in RegProcs, req \in ResolveRequests : RegStart(p, req) /\ UNCHANGED lookup /\ UNCHANGED codecVars /\ UNCHANGED brokerVars
    \/ \E p \in RegProcs : RegGet(p) /\ UNCHANGED lookup /\ UNCHANGED codecVars /\ UNCHANGED brokerVars
    \/ \E p \in RegProcs, valid \in BOOLEAN : RegValidate(p, valid) /\ UNCHANGED lookup /\ UNCHANGED codecVars /\ UNCHANGED brokerVars
    \/ \E p \in RegProcs : RegInvoice(p, TRUE) /\ UNCHANGED lookup /\ UNCHANGED codecVars /\ UNCHANGED brokerVars
    \/ \E p \in RegProcs : RegSetNonce(p) /\ UNCHANGED lookup /\ UNCHANGED codecVars /\ UNCHANGED brokerVars
    \/ \E p \in RegProcs : RegSetInvoice(p) /\ UNCHANGED lookup /\ UNCHANGED codecVars /\ UNCHANGED brokerVars
    \/ \E q \in PaidProcs, i \in 1..MaxReg : PaidGet(q, NonceString(i)) /\ UNCHANGED lookup /\ UNCHANGED codecVars /\ UNCHANGED brokerVars
    \/ \E q \in PaidProcs : PaidDelete(q) /\ UNCHANGED lookup /\ UNCHANGED codecVars /\ UNCHANGED brokerVars
    \/ \E q \in PaidProcs : PaidDeleteInvoice(q) /\ UNCHANGED lookup /\ UNCHANGED codecVars /\ UNCHANGED brokerVars
    \/ \E q \in PaidProcs : PaidBody(q, TRUE) /\ UNCHANGED lookup /\ UNCHANGED codecVars /\ UNCHANGED brokerVars
    \/ \E q \in PaidProcs : PaidRegister(q) /\ UNCHANGED lookup /\ UNCHANGED codecVars /\ UNCHANGED brokerVars
    \/ \E uri \in LocalURIs : handleResolve(uri, NoResponse) /\ UNCHANGED codecVars /\ UNCHANGED brokerVars
    \/ \E uri \in RemoteURIs, resp \in RemoteResponses : handleResolve(uri, resp) /\ UNCHANGED codecVars /\ UNCHANGED brokerVars

\* the registration flow with a resolution request at any moment
SpecResolve == Init /\ [][ResolveNext]_vars

(***************************************************************************)
(* Properties of the registration flow                                     *)
(***************************************************************************)
\* RegisterStore.Paid has returned a document to handler q
PaidReturned(q) ==
    \/ paid[q].pc \in {"body", "register"}
    \/ paid[q].pc = "done" /\ paid[q].code # 401

\* the pending record of handler p is in the registration store, or was
PendingCreated(p) == reg[p].pc \in {"setInvoice", "done"} /\ reg[p].nonce # ""

\* C1: of the ConfirmPayment calls that carry the same nonce, at most one
\* has RegisterStore.Paid succeed; no two handlers both hold the document of
\* one nonce
C1_AtMostOneConfirm ==
    \A q1, q2 \in PaidProcs :
        (q1 # q2 /\ PaidReturned(q1) /\ PaidReturned(q2)) => paid[q1].id # paid[q2].id

\* C2: every record of the primary store is the document of a pending
\* registration that a register request created and that a webhook call
\* carrying its nonce consumed and registered
C2_PaymentGated ==
    \A k \in DOMAIN store :
        \E q \in PaidProcs, p \in RegProcs :
            /\ PendingCreated(p)
            /\ paid[q].id = reg[p].nonce
            /\ paid[q].pc = "done" /\ paid[q].code = 200
            /\ paid[q].doc = reg[p].doc
            /\ paid[q].broadcast = reg[p].doc.ID
            /\ store[k] = Marshal(reg[p].doc)
            /\ k = StoreKey(reg[p].doc).key

\* a document has been registered after its payment
C2_Witness ==
    \E q \in PaidProcs :
        /\ paid[q].pc = "done" /\ paid[q].broadcast # ""
        /\ \E k \in DOMAIN store : store[k] = Marshal(paid[q].doc)

\* C3: a record of the primary store, once written, keeps its key and its
\* value in every step of register requests and webhook calls
C3_NeverOverwritten ==
    [][\A k \in DOMAIN store : k \in DOMAIN store' /\ store'[k] = store[k]]_vars

\* the handler p was answered with a payment request it found stored
Reused(p) == reg[p].pc = "done" /\ reg[p].validated /\ reg[p].code = 200

\* C7: a register request that finds a payment request stored under its
\* identifier and has the gateway confirm it answers with that payment
\* request, the one an earlier request for the identifier was answered with,
\* and draws no nonce, writes no pending record and requests no invoice
C7_Idempotent ==
    \A p \in RegProcs :
        reg[p].validated =>
            /\ reg[p].pc = "done" /\ reg[p].code = 200
            /\ reg[p].nonce = "" /\ reg[p].invoice = ""
            /\ reg[p].body = reg[p].payReq
            /\ \E o \in RegProcs :
                  /\ o # p
                  /\ reg[o].pc = "done" /\ reg[o].code = 200
                  /\ reg[o].doc.ID = reg[p].doc.ID
                  /\ reg[o].invoice = reg[p].body
                  /\ reg[o].body = reg[p].body

\* two requests with the same identifier and document, no payment between
\* them: the second was answered with the first's payment request
C7_Witness ==
    \E p, o \in RegProcs :
        /\ o # p
        /\ Reused(p)
        /\ reg[o].req = reg[p].req
        /\ reg[o].body = reg[p].body
        /\ nonces = 1
        /\ \A q \in PaidProcs : paid[q].pc = "idle"

\* C8: a register request answered with a stored payment request carries
\* the document of the pending record that payment request was issued for
C8_SameDocument ==
    \A p, o \in RegProcs :
        (o # p /\ Reused(p) /\ reg[o].invoice # "" /\ reg[o].invoice = reg[p].body)
            => reg[o].doc = reg[p].doc

\* the keys of the request of handler p name no assertion method
LacksAssertionMethod(p) ==
    \A i \in 1..Len(reg[p].req.Keys) :
        \A j \in 1..Len(reg[p].req.Keys[i].Purposes) :
            ToLower(reg[p].req.Keys[i].Purposes[j]) # "assertionmethod"

\* C9: a register request whose keys name no assertion method is answered
\* with an error and writes nothing, and no pending record and no record of
\* the primary store holds a document without an assertion method
C9_AssertionMethod ==
    /\ \A p \in RegProcs :
          (reg[p].pc # "idle" /\ LacksAssertionMethod(p)) =>
              /\ reg[p].pc = "done"
              /\ reg[p].code \in {400, 500}
              /\ reg[p].nonce = ""
    /\ \A k \in DOMAIN regStore :
          regStore[k].kind = "json" => Len(regStore[k].doc.AssertionMethod) > 0
    /\ \A k \in DOMAIN store : Len(store[k].doc.AssertionMethod) > 0

\* a request under the domain without an assertion method was rejected by
\* DIDFromProps, while another document is pending or registered
C9_Witness ==
    /\ \E p \in RegProcs :
          /\ LacksAssertionMethod(p)
          /\ reg[p].pc = "done" /\ reg[p].code = 500
    /\ DOMAIN regStore # {}

\* C10: once a webhook handler that consumed a pending record has completed,
\* the document of that record is in the primary store
C10_ConsumedIsFinalized ==
    \A q \in PaidProcs :
        (paid[q].pc = "done" /\ paid[q].code # 401) =>
            \E k \in DOMAIN store : store[k] = Marshal(paid[q].doc)

(***************************************************************************)
(* Properties of the codec                                                 *)
(***************************************************************************)
\* C4: Parse accepts every identifier did:web:host[:seg1[:seg2...]] whose
\* segments hold no raw ":", and the first DID() of the descriptor is the
\* identifier again
C4_RoundTrip ==
    (id \in Identifiers /\ path = "") =>
        /\ op # "new" => perr = ""
        /\ (op = "DID" /\ ncalls = 1) => out = id

(***************************************************************************)
(* Properties of the broker                                                *)
(***************************************************************************)
\* C5: no BroadcastPayment waits in its send on the channel of a connection
\* whose handler has returned
C5_NeverBlocked ==
    \A b \in Pubs : pub[b].pc = "send" => conn[pub[b].cur].pc # "returned"

\* C6: a connection that is in the subscriber set a BroadcastPayment read
\* receives that broadcast's payload, unless the connection goes away (or the
\* process has stopped)
C6_FanOut ==
    \A b \in Pubs, s \in Conns :
        (pub[b].pc = "iter" /\ s \in pub[b].snap)
            ~> (b \in conn[s].got \/ conn[s].ctxDone \/ crashed)

(***************************************************************************)
(* Properties of the webhook's error path                                  *)
(***************************************************************************)
\* the registration store holds no pending record under key: the key is
\* missing, or its value is no document
NoPending(key) == Get(regStore, key).kind # "json"

\* C11: a webhook call whose {id} has no pending record is answered 401 and
\* nothing else, the same answer whether the nonce was never written or was
\* consumed before, and the step leaves the registration store, the primary
\* store and the broker as they were, with nothing to broadcast
C11_UnknownNonce ==
    [][\A q \in PaidProcs :
          (paid[q].pc = "idle" /\ paid'[q].pc # "idle" /\ NoPending(paid'[q].id)) =>
              /\ paid'[q] = [IdlePaid EXCEPT !.pc = "done", !.id = paid'[q].id, !.code = 401]
              /\ UNCHANGED <<store, regStore, clients, conn, pub, crashed>>]_vars

\* a webhook call was answered 401 for a nonce that an earlier call had
\* consumed
C11_Witness ==
    \E q, o \in PaidProcs :
        /\ o < q
        /\ PaidReturned(o)
        /\ paid[q].id = paid[o].id
        /\ paid[q].pc = "done" /\ paid[q].code = 401 /\ paid[q].broadcast = ""

(***************************************************************************)
(* Properties of the broker's subscriptions                                *)
(***************************************************************************)
\* BroadcastPayment b is in its send on the channel of connection s
Sending(b, s) == pub[b].pc = "send" /\ pub[b].cur = s

\* C12: once the cleanup goroutine of a disconnected connection has run, the
\* connection's channel is not in the broker map, and no BroadcastPayment
\* begins a send on that channel
C12_NoSendAfterCleanup ==
    [][\A s \in Conns :
          conn'[s].cleanup = "done" =>
              /\ s \notin ClientsOf(conn[s].id)'
              /\ \A b \in Pubs : Sending(b, s)' => Sending(b, s)]_vars

\* the first connection was cleaned up, then a second one subscribed to the
\* same identifier, and a broadcast that found only the second delivered to
\* it and not to the first
C12_Witness ==
    \E b \in Pubs :
        /\ conn[1].cleanup = "done"
        /\ conn[2].id = conn[1].id
        /\ pub[b].id = conn[1].id
        /\ pub[b].snap = {2}
        /\ pub[b].pc = "done"
        /\ b \in conn[2].got
        /\ b \notin conn[1].got

\* C13: no WaitForPayment handler has returned while its channel is still
\* in the broker map
C13_RemovedBeforeReturn ==
    \A s \in Conns : conn[s].pc = "returned" => s \notin ClientsOf(conn[s].id)

\* C14: no step writes the inner map of an identifier while a
\* BroadcastPayment ranges over that map
C14_LockGuardsIteration ==
    [][\A i \in DOMAIN clients :
          RacesWithIteration(i) => (i \in DOMAIN clients' /\ clients'[i] = clients[i])]_vars

\* the cleanup goroutine of connection s runs in this step
CleanupRuns(s) == conn[s].cleanup = "waiting" /\ conn'[s].cleanup = "done"

\* C15: the cleanup of a connection runs once the connection has ended (if
\* the process is still there) and never a second time; it removes that
\* connection's channel from its identifier's inner map and leaves every
\* other channel, of that identifier and of the others, where it was; and no
\* other step removes a channel
C15_UnsubscribeOnce ==
    /\ [][\A s \in Conns :
             /\ conn[s].cleanup = "done" => conn'[s].cleanup = "done"
             /\ CleanupRuns(s) => clients' = [clients EXCEPT ![conn[s].id] = @ \ {s}]]_vars
    /\ [][(\A s \in Conns : ~CleanupRuns(s)) =>
             \A i \in DOMAIN clients : i \in DOMAIN clients' /\ clients[i] \subseteq clients'[i]]_vars
    /\ \A s \in Conns : conn[s].ctxDone ~> (conn[s].cleanup = "done" \/ crashed)

\* both connections were subscribed to one identifier when a broadcast read
\* its map; the first has been cleaned up since and the second is still there
C15_Witness ==
    \E b \in Pubs :
        /\ pub[b].snap = {1, 2}
        /\ conn[1].cleanup = "done"
        /\ conn[2].cleanup = "waiting"
        /\ clients[conn[1].id] = {2}
        /\ ~crashed

(***************************************************************************)
(* Properties of the codec's escaping and of the document location         *)
(***************************************************************************)
\* path segments of letters, "+" and ":", each with its escaped form
PlusColonSegments ==
    { <<"some+subpath", "some%2Bsubpath">>, <<"a:b", "a%3Ab">>, <<"+", "%2B">>,
      <<":", "%3A">>, <<"a+b:c", "a%2Bb%3Ac">> }

\* the non-empty paths of such segments
PlusColonPaths == SeqsUpTo(PlusColonSegments, MaxSegs) \ {<< >>}

\* the segments of a path as they are, and escaped
PlainOf(segs) == [i \in 1..Len(segs) |-> segs[i][1]]

EscapedOf(segs) == [i \in 1..Len(segs) |-> segs[i][2]]

\* C16: for path segments that hold "+" or ":", Parse of
\* did:web:host:escaped-segments returns the segments unescaped, and the
\* first ID() of that descriptor returns host:escaped-segments
C16_PlusColonEscaping ==
    \A h \in CodecHosts, segs \in PlusColonPaths :
        id = "did:web:" \o h \o ":" \o Join(EscapedOf(segs), ":") =>
            /\ op = "Parse" => (perr = "" /\ u.parts = PlainOf(segs))
            /\ (op = "ID" /\ ncalls = 1 /\ path = "") =>
                   out = h \o ":" \o Join(EscapedOf(segs), ":")

\* ID() has returned the escaped form of some+subpath after a colon segment
C16_Witness ==
    /\ id = "did:web:h:a%3Ab:some%2Bsubpath"
    /\ op = "ID" /\ ncalls = 1
    /\ out = "h:a%3Ab:some%2Bsubpath"

\* C17: for an identifier Parse accepts, ParsePath accepts the path of a
\* request of Parse(id).URL(), and the DID() of the descriptor it returns is
\* the identifier
C17_Reversible ==
    (id \in Identifiers /\ path # "") =>
        /\ op = "ParsePath" => perr = ""
        /\ (op = "DID" /\ ncalls = 1) => out = id

\* the segments of an identifier after its host token, without the empty ones
SegmentsOf(tokens) == SelectSeq(SubSeq(tokens, 4, Len(tokens)), LAMBDA part : Len(part) > 0)

\* https:// + decoded host + / + decoded segments joined by / + /did.json,
\* with .well-known for an identifier without segments
LocationOf(tokens, segs) ==
    "https://" \o QueryUnescape(tokens[3]).val \o "/"
       \o (IF Len(segs) = 0 THEN ".well-known"
           ELSE Join([i \in 1..Len(segs) |-> QueryUnescape(segs[i]).val], "/"))
       \o "/did.json"

\* C18: the URL() of the descriptor Parse returned for an identifier is the
\* location formed of its decoded host and its decoded path segments
C18_ResolutionURL ==
    (op = "URL" /\ ncalls = 0 /\ id \in Identifiers /\ path = "") =>
        out = LocationOf(Split(id, ":"), SegmentsOf(Split(id, ":")))

\* C19: ParsePath accepts host/seg1/.../segN/did.json, with or without a
\* .well-known before the document name, whatever the case of the two
\* names, and the DID() of the descriptor is did:web:host:seg1:...:segN
C19_PathMapping ==
    \A c \in PathCases :
        (id = "" /\ path = PathOf(c)) =>
            /\ op = "ParsePath" => perr = ""
            /\ (op = "DID" /\ ncalls = 1) =>
                   out = "did:web:" \o Join(<<c.host>> \o c.segs, ":")

\* the path of the specification's example was mapped to its identifier
C19_Witness ==
    /\ path = "example.com/accounting/john/did.json"
    /\ op = "DID" /\ ncalls = 1
    /\ out = "did:web:example.com:accounting:john"

\* what Host() owes for a decoded token host:suffix: the decoded token when
\* the suffix is a number, the raw token when it is none
HostPortOf(raw, decoded, suffix, result) ==
    IF suffix # "" /\ AllDigits(suffix) THEN result = decoded ELSE result = raw

\* C20: Host() of a token that decodes to host:port with a numeric port is
\* host:port, and Host() of a token that does not decode, or whose suffix
\* after the colon is no number, is the token as written
C20_HostPort ==
    op = "Host" =>
        IF QueryUnescape(u.host).err # "" THEN out = u.host
        ELSE IF ~Contains(QueryUnescape(u.host).val, ":") THEN TRUE
        ELSE HostPortOf(u.host, QueryUnescape(u.host).val,
                        From(QueryUnescape(u.host).val,
                             Index(QueryUnescape(u.host).val, ":") + 1),
                        out)


(***************************************************************************)
(* Properties of what the codec accepts and rejects                        *)
(***************************************************************************)
\* C21: a descriptor that Parse or ParsePath returned without error has a
\* host that is not empty
C21_HostNonEmpty ==
    (op \in {"Parse", "ParsePath"} /\ perr = "") => u.host # ""

\* every "%" of s is followed by two hexadecimal digits
ValidPercentEncoding(s) ==
    \A i \in 1..Len(s) :
        Ch(s, i) = "%" => (i + 2 <= Len(s) /\ ishex(Ch(s, i + 1)) /\ ishex(Ch(s, i + 2)))

\* an identifier of fewer than three tokens, or whose first two tokens are
\* not did and web, or with a path token that is no percent-encoding
Unacceptable(tokens) ==
    \/ Len(tokens) < 3
    \/ tokens[1] # "did"
    \/ tokens[2] # "web"
    \/ \E i \in 4..Len(tokens) : ~ValidPercentEncoding(tokens[i])

NotADocumentPath(segs) ==
    \/ Len(segs) < 2
    \/ ToLower(segs[Len(segs)]) # "did.json"

\* C23: ParsePath returns an error and no descriptor for a path of fewer
\* than two slash-separated segments, and for a path whose last segment is
\* not did.json in any case
C23_ParsePathErrors ==
    (op = "ParsePath" /\ id = "") =>
        (NotADocumentPath(Split(path, "/")) => (perr # "" /\ u = NoURL))

\* ParsePath has refused the path example.com
C23_Witness ==
    /\ op = "ParsePath" /\ id = ""
    /\ path = "example.com"
    /\ perr = "invalid"
    /\ u = NoURL

(***************************************************************************)
(* Properties of the descriptor's accessors                                *)
(***************************************************************************)
\* the descriptor as the parse returned it: of ParsePath when a path was
\* parsed, of Parse otherwise
Fresh == IF path # "" THEN ParsePath(path).url ELSE Parse(id).url

\* the state after calls of the accessors agrees with a descriptor that no
\* call has touched
Untouched(fresh) ==
    /\ u.parts = fresh.parts
    /\ op = "ID" => out = ID(fresh)
    /\ op = "DID" => out = DID(fresh)
    /\ op = "URL" => out = URL(fresh)

\* C30: after any number of ID() and DID() calls on a descriptor its path
\* segments are those the parse returned, every ID() and DID() returns what
\* the first one returned, and URL() returns what it returns on a
\* descriptor no call has touched
C30_PureReads ==
    (op \in {"ID", "DID", "URL"} /\ perr = "") => Untouched(Fresh)

(***************************************************************************)
(* Properties of the register request's answers                            *)
(***************************************************************************)
\* the identifier of the request of handler p starts with another domain
OtherDomain(p) == Split(reg[p].req.ID, ":")[1] # domain

\* some record of the registration store belongs to the identifier name: a
\* pending record holding its document, or its invoice record
HasRecord(name) ==
    \E k \in DOMAIN regStore :
        \/ k = "did:web:" \o name
        \/ regStore[k].kind = "json" /\ regStore[k].doc.ID = "did:web:" \o name

\* C25: a register request whose identifier starts with another token than
\* the domain is answered 400, draws no nonce and requests no invoice, and
\* the registration store holds no pending record and no invoice record of
\* that identifier
C25_DomainChecked ==
    \A p \in RegProcs :
        (reg[p].pc # "idle" /\ OtherDomain(p)) =>
            /\ reg[p].pc = "done"
            /\ reg[p].code = 400
            /\ reg[p].nonce = "" /\ reg[p].invoice = ""
            /\ ~HasRecord(reg[p].req.ID)

\* a request for x:a was answered 400 while the registration of h:a is
\* pending
C25_Witness ==
    /\ \E p \in RegProcs :
          /\ reg[p].req.ID = "x:a"
          /\ reg[p].pc = "done" /\ reg[p].code = 400
          /\ reg[p].body = "invalid domain"
    /\ "did:web:h:a" \in DOMAIN regStore

\* C26: a register request under the domain that does not resolve yet and
\* whose keys name no assertion method is answered 400
C26_NoAssertionMethodIs400 ==
    \A p \in RegProcs :
        (reg[p].pc = "done" /\ LacksAssertionMethod(p) /\ reg[p].body = "could not register")
            => reg[p].code = 400

\* the handler p has been answered that the gateway gave no invoice
GatewayFailed(p) ==
    reg[p].pc = "done" /\ reg[p].code = 500 /\ reg[p].body = "could not get payment request"

\* the step in which RegisterStore.Register of handler p gets no invoice
\* from the gateway
GatewayFails(p) == reg[p].pc = "register" /\ reg'[p].pc = "done"

\* C27: the step in which the gateway does not answer the invoice request
\* of a handler with 201 ends that handler with 500 after this one request,
\* and writes nothing to the registration store or to the primary store
C27_GatewayError ==
    [][\A p \in RegProcs :
          GatewayFails(p) =>
              /\ reg'[p].code = 500
              /\ reg'[p].nonce = "" /\ reg'[p].invoice = ""
              /\ nonces' = nonces + 1
              /\ regStore' = regStore
              /\ store' = store]_vars

\* a handler was answered 500 for the gateway after an earlier registration
\* of the identifier had written its records
C27_Witness ==
    /\ \E p \in RegProcs : GatewayFailed(p) /\ reg[p].doc.ID = "did:web:h:a"
    /\ "did:web:h:a" \in DOMAIN regStore
    /\ nonces = 2

\* the keys of the pending records that hold a document of the identifier
PendingOf(name) ==
    {k \in DOMAIN regStore : regStore[k].kind = "json" /\ regStore[k].doc.ID = name}

\* the invoice the gateway issued with the nonce k
InvoiceOf(k) ==
    {reg[p].invoice : p \in {o \in RegProcs : reg[o].nonce = k /\ reg[o].invoice # ""}}

\* C29: the registration store holds at most one pending record per
\* identifier, and where an identifier has both a pending record and an
\* invoice record, the invoice record holds the invoice that was issued
\* with the nonce of that pending record
C29_OnePending ==
    /\ \A k \in DOMAIN regStore :
          regStore[k].kind = "json" => PendingOf(regStore[k].doc.ID) = {k}
    /\ \A name \in DOMAIN regStore :
          regStore[name].kind = "text" =>
              \A k \in PendingOf(name) : regStore[name].text \in InvoiceOf(k)

(***************************************************************************)
(* Properties of resolution                                                *)
(***************************************************************************)
\* the host answered the fetch with status 200 and a JSON document
FetchedDocument == lookup.resp.StatusCode = 200 /\ lookup.resp.body.kind = "json"

\* the fetched document is named as the identifier asked for, in any case
SameName == ToLower(lookup.resp.body.doc.ID) = ToLower(lookup.id)

\* C24: didweb.Resolve returns a document only when the host answered 200
\* with a document whose ID is the identifier asked for in any case, and it
\* is that document; a 200 with a document of another ID gives an error and
\* no document, a 404 gives DIDNotFound, and another status gives an error
\* that carries the status
C24_ResolveChecksID ==
    (op = "Resolve" /\ lookup.pc = "done") =>
        /\ lookup.err = "" =>
              (FetchedDocument /\ SameName /\ lookup.doc = lookup.resp.body.doc)
        /\ (FetchedDocument /\ ~SameName) => (lookup.err # "" /\ lookup.doc = NoDoc)
        /\ lookup.resp.StatusCode = 404 => (lookup.err = "DIDNotFound" /\ lookup.doc = NoDoc)
        /\ lookup.resp.StatusCode = 500 =>
              (lookup.err # "" /\ lookup.status = 500 /\ lookup.doc = NoDoc)

\* Resolve of did:web:h:a has refused a 200 answer that held the document
\* of did:web:h:b
C24_Witness ==
    /\ op = "Resolve" /\ lookup.pc = "done"
    /\ lookup.id = "did:web:h:a"
    /\ lookup.url = "https://h/a/did.json"
    /\ lookup.resp.StatusCode = 200
    /\ lookup.resp.body = Marshal([NoDoc EXCEPT !.ID = "did:web:h:b"])
    /\ lookup.err = "masmatched document id"
    /\ lookup.doc = NoDoc

\* the webhook handler q has finalized a document of the identifier name
FinalizedAs(q, name) ==
    paid[q].pc = "done" /\ paid[q].code = 200 /\ paid[q].broadcast = "did:web:" \o name

\* handleResolve serves the request for the identifier name in this step
Resolves(name) ==
    lookup.pc = "idle" /\ lookup'.pc = "done" /\ lookup'.uri = "/resolve/did:web:" \o name

\* C28: a GET /resolve/did:web:<name> for a name under the domain fetches
\* nothing; when a document of that name has been finalized it is answered
\* 200 with a finalized document of that name, and when none has been it is
\* answered 404
C28_ResolveFinalized ==
    [][\A name \in {"h:a", "h:b"} :
          Resolves(name) =>
              /\ lookup'.url = "" /\ lookup'.resp = NoResponse
              /\ IF \E q \in PaidProcs : FinalizedAs(q, name)
                   THEN /\ lookup'.code = 200
                        /\ \E q \in PaidProcs : FinalizedAs(q, name) /\ lookup'.doc = paid[q].doc
                   ELSE lookup'.code = 404]_vars

(***************************************************************************)
(* Properties of the broker's deliveries                                   *)
(***************************************************************************)
\* C31: a BroadcastPayment sends only on channels of connections that wait
\* on its identifier, and a connection has received only from broadcasts
\* for the identifier it waits on
C31_Isolation ==
    \A b \in Pubs, s \in Conns :
        /\ Sending(b, s) => conn[s].id = pub[b].id
        /\ b \in conn[s].got => conn[s].id = pub[b].id

\* two connections wait on different identifiers; a broadcast for the first
\* one's identifier has completed, delivered to the first and not to the
\* second
C31_Witness ==
    \E b \in Pubs :
        /\ conn[1].id = "did:web:h:a" /\ conn[2].id = "did:web:h:b"
        /\ clients["did:web:h:a"] = {1} /\ clients["did:web:h:b"] = {2}
        /\ pub[b].id = "did:web:h:a" /\ pub[b].pc = "done"
        /\ b \in conn[1].got
        /\ conn[2].pc = "select" /\ conn[2].got = {}

\* C32: a BroadcastPayment sends and delivers only to the connections that
\* were in the identifier's inner map when it read the map, so a connection
\* that subscribes later, during the broadcast or after it, gets nothing of
\* it; and a handler returns only after its client has gone
C32_NoReplay ==
    /\ \A b \in Pubs, s \in Conns :
          /\ Sending(b, s) => s \in pub[b].snap
          /\ b \in conn[s].got => s \in pub[b].snap
    /\ \A s \in Conns : conn[s].pc = "returned" => conn[s].ctxDone

=============================================================================
